---- MODULE Spec2Model ----
(***************************************************************************)
(* Model of the battle protocol dispatcher of PokemonShowdownBot           *)
(* (plugins/battling/battleHandler.py): one BattleHandler object, its      *)
(* activeBattles table, and one action per message tag of parse().         *)
(* Battle, Player/side and Pokemon live in plugins/battling/battle.py,     *)
(* which is not part of the sources at hand; they are modelled from the    *)
(* data model of the specification.                                        *)
(***************************************************************************)
EXTENDS Integers, Sequences, FiniteSets, TLC

VARIABLES activeBattles, out, fault, last, ended, lastRqid, reported, handled

\* One run of the Team Builder of commands.py: the tier key it reads, its
\* locals team and attempts, and where it stands (idle, main loop, fallback
\* fill loop, returned, raised).  drawn tells what became of its latest
\* draw: "rejected" by one of the two 'continue' tests, else "taken"
\* ("none" before the first draw).
VARIABLES tier, team, attempts, pc, drawn

\* One call of acceptableWeakness: the order in which the for loop meets the
\* members of its argument, and the value returned ({} before the call)
VARIABLES probe, verdict

\* The MessageDatabase of plugins/messages.py (bot.usernotes): its two
\* dicts, the wall clock read by datetime.now(), and for the properties the
\* latest call (which one, for which user id, what it returned) and the
\* users whose mailbox was created since their last shouldNotifyMessage.
VARIABLES messages, lastNotification, now, reply, fresh

handlerVars == <<activeBattles, out, fault, last, ended, lastRqid, reported, handled>>
builderVars == <<tier, team, attempts, pc, drawn>>
probeVars == <<probe, verdict>>
notesVars == <<messages, lastNotification, now, reply, fresh>>
vars == <<activeBattles, out, fault, last, ended, lastRqid, reported, handled,
          tier, team, attempts, pc, drawn, probe, verdict,
          messages, lastNotification, now, reply, fresh>>

\* no Team Builder command is running, no acceptableWeakness call either
BuilderIdle ==
  tier = "oupoke" /\ team = {} /\ attempts = 0 /\ pc = "idle" /\ drawn = "none"
ProbeIdle == probe = <<>> /\ verdict = {}
\* hours since datetime(2015, 1, 1) count from Epoch; the clock starts later
Epoch == 0
StartHour == 2
NotesInit ==
  /\ messages = <<>>
  /\ lastNotification = <<>>
  /\ now = StartHour
  /\ reply = [op |-> "none", user |-> <<>>, to |-> <<>>, ret |-> "none"]
  /\ fresh = {}

(***************************************************************************)
(* Bounds and input alphabets                                              *)
(***************************************************************************)
\* request ids are 1..MaxRqid; a run delivers at most MaxMsgs messages
MaxRqid == 2
MaxMsgs == 3

Keys == {"battle-1", "battle-2"}
botName == "bot"
\* "trinity" is a player name whose text contains the substring 'init'
Names == {"bot", "foe", "trinity"}
\* player ids are strings; they are kept as character sequences so that
\* startswith is a real prefix test
P1 == <<"p", "1">>
P2 == <<"p", "2">>
PlayerIds == {P1, P2}
\* 'details' strings, kept as their comma separated segments
Details == {<<"Pikachu", "L50">>, <<"Eevee">>}
MoveLists == {<<>>, <<"tackle", "surf">>}
Rqids == 1..MaxRqid
NoPoke == "None"

(***************************************************************************)
(* Inbound messages, one record shape per tag                              *)
(***************************************************************************)
\* one entry of request['side']['pokemon']; complete = FALSE when one of the
\* keys read on lines 34-35 is missing from the entry
PokeEntries ==
  [details : Details, active : BOOLEAN, moves : {<<"tackle", "surf">>}, complete : {TRUE}]
    \cup [details : {<<"Pikachu", "L50">>}, active : {TRUE}, moves : {<<>>}, complete : {TRUE}]
    \cup [details : {<<"Eevee">>}, active : {FALSE}, moves : {<<>>}, complete : {FALSE}]

\* request['side']['pokemon']: no entry, one entry, or two entries for two
\* different Pokemon in either order
PokeLists ==
  {<<>>} \cup {<<e>> : e \in PokeEntries}
    \cup {<<p[1], p[2]>> : p \in {q \in PokeEntries \X PokeEntries : q[1].details # q[2].details}}

\* the decoded JSON payload of a request: rqid is {} when the payload has no
\* 'rqid' key; shape tells which of 'side' / 'pokemon' are present; init
\* tells whether the raw payload text contains the substring 'init'
Payloads ==
  [rqid : {{}} \cup {{r} : r \in Rqids}, shape : {"ok"}, init : {FALSE},
   pokemon : PokeLists]
    \cup [rqid : {{}} \cup {{r} : r \in Rqids}, shape : {"noside", "nopokemon"},
          init : {FALSE}, pokemon : {<<>>}]
    \cup [rqid : {{r} : r \in Rqids}, shape : {"ok"}, init : {TRUE},
          pokemon : {<<e>> : e \in {f \in PokeEntries : f.active /\ f.complete}}]

InitMsgs == [tag : {"init"}, kind : {"battle", "chat"}]
RequestMsgs == [tag : {"request"}, payload : Payloads]
PokeMsgs == [tag : {"poke"}, player : PlayerIds]
PlayerMsgs == [tag : {"player"}, player : PlayerIds, name : Names]
TeampreviewMsgs == [tag : {"teampreview"}]
TurnMsgs == [tag : {"turn"}]
\* |switch|p1a: Nick|Details|...
SwitchMsgs == [tag : {"switch"}, who : {Append(p, "a") : p \in PlayerIds}, details : Details]
\* winner is {} for a line with no third segment ('|tie')
WinTieMsgs == [tag : {"win"}, winner : {{n} : n \in Names}]
                \cup [tag : {"tie"}, winner : {{}} \cup {{n} : n \in Names}]
EmptyMsgs == [tag : {"empty"}]

NonInitTags == {"request", "poke", "player", "teampreview", "turn", "switch", "win", "tie"}

\* 'init' in msg  (line 21), on the raw text of the message
ContainsInit(m) ==
  CASE m.tag = "init" -> TRUE
    [] m.tag = "request" -> m.payload.init
    [] m.tag = "player" -> m.name = "trinity"
    [] m.tag \in {"win", "tie"} -> "trinity" \in m.winner
    [] OTHER -> FALSE

(***************************************************************************)
(* battle.py: Pokemon, side roster, Battle                                 *)
(***************************************************************************)
Pokemon(species, details, active, moves) ==
  [species |-> species, details |-> details, active |-> active, moves |-> moves]

EmptyTeam == [s \in {} |-> Pokemon("", <<>>, FALSE, <<>>)]

NewSide == [id |-> <<>>, name |-> "", team |-> EmptyTeam, active |-> NoPoke]

Battle(name) == [name |-> name, rqid |-> 0, me |-> NewSide, other |-> NewSide]

\* create-or-update the entity keyed by its species; an entry flagged active
\* becomes the side's active reference
updateTeam(side, poke) ==
  [side EXCEPT
     !.team = [s \in DOMAIN side.team \cup {poke.species} |->
                 IF s = poke.species THEN poke ELSE side.team[s]],
     !.active = IF poke.active THEN poke.species ELSE side.active]

getPokemon(side, species) ==
  IF species \in DOMAIN side.team THEN species ELSE NoPoke

setActive(side, ref) == [side EXCEPT !.active = ref]

setMe(btl, name, id) == [btl EXCEPT !.me.name = name, !.me.id = id]

setOther(btl, name, id) == [btl EXCEPT !.other.name = name, !.other.id = id]

StartsWith(s, prefix) ==
  /\ Len(prefix) <= Len(s)
  /\ SubSeq(s, 1, Len(prefix)) = prefix

(***************************************************************************)
(* BattleHandler                                                           *)
(***************************************************************************)
\* details.split(',')[0]
getSpecies(details) == details[1]

\* ws.send('{room}|{msg}'): the outbound line, kept as its two parts
respond(battle, msg) == [room |-> battle, msg |-> msg]

Result(battles, lines, exc) == [battles |-> battles, out |-> lines, fault |-> exc]

Tracked(battles, battle) == battle \in DOMAIN battles

\* Put that writes the session under every key of the table
Put_all(battles, battle, btl) ==
  [k \in DOMAIN battles \cup {battle} |-> btl]

Put(battles, battle, btl) ==
  [k \in DOMAIN battles \cup {battle} |-> IF k = battle THEN btl ELSE battles[k]]

\* HandleInit with the table rebuilt instead of extended
HandleInit_fresh(battles, battle, m) ==
  IF m.kind = "battle"
  THEN Result([k \in {battle} |-> Battle(battle)],
              <<respond(battle, [cmd |-> "/timer"])>>, "none")
  ELSE Result(battles, <<>>, "none")

\* lines 23-25: 'init' == msg[1] and 'battle' == msg[2]; any other |init|...
\* line matches no later branch of the chain
HandleInit(battles, battle, m) ==
  IF m.kind = "battle"
  THEN Result(Put(battles, battle, Battle(battle)),
              <<respond(battle, [cmd |-> "/timer"])>>, "none")
  ELSE Result(battles, <<>>, "none")

\* lines 32-35: the loop over sidedata['pokemon'], entry i onwards; the
\* lookup of a missing key of an entry raises before updateTeam is called
\* and leaves the earlier entries applied
RECURSIVE UpdateFrom(_, _, _)
UpdateFrom(btl, pokes, i) ==
  IF i > Len(pokes) THEN [btl |-> btl, fault |-> "none"]
  ELSE IF ~pokes[i].complete THEN [btl |-> btl, fault |-> "KeyError"]
  ELSE UpdateFrom(
         [btl EXCEPT !.me = updateTeam(btl.me,
                              Pokemon(getSpecies(pokes[i].details), pokes[i].details,
                                      pokes[i].active, pokes[i].moves))],
         pokes, i + 1)

\* lines 26-35
HandleRequest(battles, battle, m) ==
  LET request == m.payload
      hasRqid == request.rqid # {}
      rqid == CHOOSE r \in request.rqid : TRUE
  IN IF ~Tracked(battles, battle)
     THEN \* self.activeBattles[battle] is only evaluated on line 30 and
          \* inside the loop body
          IF hasRqid \/ request.shape # "ok" \/ Len(request.pokemon) > 0
          THEN Result(battles, <<>>, "KeyError")
          ELSE Result(battles, <<>>, "none")
     ELSE LET stored == IF hasRqid THEN [battles[battle] EXCEPT !.rqid = rqid]
                        ELSE battles[battle]
          IN IF request.shape # "ok"
             THEN Result(Put(battles, battle, stored), <<>>, "KeyError")
             ELSE LET r == UpdateFrom(stored, request.pokemon, 1)
                  IN Result(Put(battles, battle, r.btl), <<>>, r.fault)

\* lines 36-38
HandlePoke(battles, battle, m) ==
  IF ~Tracked(battles, battle) THEN Result(battles, <<>>, "KeyError")
  ELSE Result(battles, <<>>, "none")

\* lines 39-43
HandlePlayer(battles, battle, m) ==
  IF ~Tracked(battles, battle) THEN Result(battles, <<>>, "KeyError")
  ELSE IF m.name = botName
       THEN Result(Put(battles, battle, setMe(battles[battle], m.name, m.player)), <<>>, "none")
       ELSE Result(Put(battles, battle, setOther(battles[battle], m.name, m.player)), <<>>, "none")

\* lines 44-45; nr is the value of randint(0,6)
HandleTeampreview(battles, battle, nr) ==
  IF ~Tracked(battles, battle) THEN Result(battles, <<>>, "KeyError")
  ELSE Result(battles,
              <<respond(battle, [cmd |-> "/team", nr |-> nr, rqid |-> battles[battle].rqid])>>,
              "none")

\* HandleTurn with a placeholder move where the lookup would raise
HandleTurn_default(battles, battle, idx) ==
  IF ~Tracked(battles, battle) THEN Result(battles, <<>>, "KeyError")
  ELSE LET me == battles[battle].me
           moves == IF me.active = NoPoke THEN <<>> ELSE me.team[me.active].moves
       IN Result(battles,
                 <<respond(battle, [cmd |-> "/choose move",
                                    name |-> IF idx >= Len(moves) THEN "None" ELSE moves[idx + 1],
                                    rqid |-> battles[battle].rqid])>>,
                 "none")

\* lines 46-48; idx is the value of randint(0,3), a 0-based list index
HandleTurn(battles, battle, idx) ==
  IF ~Tracked(battles, battle) THEN Result(battles, <<>>, "KeyError")
  ELSE LET me == battles[battle].me
       IN IF me.active = NoPoke THEN Result(battles, <<>>, "AttributeError")
          ELSE LET moves == me.team[me.active].moves
               IN IF idx >= Len(moves) THEN Result(battles, <<>>, "IndexError")
                  ELSE Result(battles,
                              <<respond(battle, [cmd |-> "/choose move", name |-> moves[idx + 1],
                                                 rqid |-> battles[battle].rqid])>>,
                              "none")

\* HandleSwitch that gives every switch to the opponent's side
HandleSwitch_foe(battles, battle, m) ==
  IF ~Tracked(battles, battle) THEN Result(battles, <<>>, "KeyError")
  ELSE LET btl == battles[battle]
       IN Result(Put(battles, battle,
                     [btl EXCEPT !.other = setActive(btl.other,
                                              getPokemon(btl.other, getSpecies(m.details)))]),
                 <<>>, "none")

\* lines 49-54
HandleSwitch(battles, battle, m) ==
  IF ~Tracked(battles, battle) THEN Result(battles, <<>>, "KeyError")
  ELSE LET btl == battles[battle]
       IN IF StartsWith(m.who, btl.me.id)
          THEN Result(Put(battles, battle,
                          [btl EXCEPT !.me = setActive(btl.me,
                                                getPokemon(btl.me, getSpecies(m.details)))]),
                      <<>>, "none")
          ELSE Result(Put(battles, battle,
                          [btl EXCEPT !.other = setActive(btl.other,
                                                   getPokemon(btl.other, getSpecies(m.details)))]),
                      <<>>, "none")

\* lines 55-60; msg[2] does not exist on a line without a winner segment
HandleWinTie(battles, battle, m) ==
  IF m.winner = {} THEN Result(battles, <<>>, "IndexError")
  ELSE Result(battles,
              <<respond(battle, [cmd |-> IF m.winner = {botName}
                                          THEN "O-oh, I won? Sorry :("
                                          ELSE "It's okay, you're better than me :>"]),
                respond(battle, [cmd |-> "/leave"])>>,
              "none")

\* parse without the guard of line 21
parse_noguard(battles, battle, m, rnd) ==
  IF m.tag = "empty" THEN Result(battles, <<>>, "none")
  ELSE CASE m.tag = "init" -> HandleInit(battles, battle, m)
         [] m.tag = "request" -> HandleRequest(battles, battle, m)
         [] m.tag = "poke" -> HandlePoke(battles, battle, m)
         [] m.tag = "player" -> HandlePlayer(battles, battle, m)
         [] m.tag = "teampreview" -> HandleTeampreview(battles, battle, rnd)
         [] m.tag = "turn" -> HandleTurn(battles, battle, rnd)
         [] m.tag = "switch" -> HandleSwitch(battles, battle, m)
         [] m.tag \in {"win", "tie"} -> HandleWinTie(battles, battle, m)

\* lines 19-60: the guards of lines 20-21, then the chain on msg[1]
parse(battles, battle, m, rnd) ==
  IF m.tag = "empty" THEN Result(battles, <<>>, "none")
  ELSE IF Tracked(battles, battle) /\ ContainsInit(m) THEN Result(battles, <<>>, "none")
  ELSE CASE m.tag = "init" -> HandleInit(battles, battle, m)
         [] m.tag = "request" -> HandleRequest(battles, battle, m)
         [] m.tag = "poke" -> HandlePoke(battles, battle, m)
         [] m.tag = "player" -> HandlePlayer(battles, battle, m)
         [] m.tag = "teampreview" -> HandleTeampreview(battles, battle, rnd)
         [] m.tag = "turn" -> HandleTurn(battles, battle, rnd)
         [] m.tag = "switch" -> HandleSwitch(battles, battle, m)
         [] m.tag \in {"win", "tie"} -> HandleWinTie(battles, battle, m)

(***************************************************************************)
(* History kept for the properties (not program state)                     *)
(***************************************************************************)
\* the descriptors listed by a well-formed request payload
Listed(payload) ==
  IF payload.shape = "ok" /\ \A i \in 1..Len(payload.pokemon) : payload.pokemon[i].complete
  THEN {payload.pokemon[i].details : i \in 1..Len(payload.pokemon)}
  ELSE {}

\* One call of parse(battle, m); rnd is the value randint returns in it.
\*   last      the message handled (its key, tag, the second segment of an
\*             init line, the rqid of a request payload, the two segments of
\*             a switch line, the name of a player line, the winner of a
\*             win or tie line) and whether its key was tracked on arrival
\*   ended     keys whose tracked battle has received win or tie
\*   lastRqid  per tracked key, the rqid of the latest request carrying one
\*   reported  per tracked key, the descriptors listed by its requests
\*   handled   the number of messages delivered so far in the run
Deliver(battle, m, rnd) ==
  LET r == parse(activeBattles, battle, m, rnd)
      was == Tracked(activeBattles, battle)
      created == ~was /\ Tracked(r.battles, battle)
  IN /\ handled' = handled + 1
     /\ activeBattles' = r.battles
     /\ out' = r.out
     /\ fault' = r.fault
     /\ last' = [battle |-> battle, tag |-> m.tag, tracked |-> was,
                 kind |-> IF m.tag = "init" THEN m.kind ELSE "",
                 rqid |-> IF m.tag = "request" THEN m.payload.rqid ELSE {},
                 who |-> IF m.tag = "switch" THEN m.who ELSE <<>>,
                 details |-> IF m.tag = "switch" THEN m.details ELSE <<>>,
                 names |-> IF m.tag = "player" THEN {m.name}
                           ELSE IF m.tag \in {"win", "tie"} THEN m.winner
                           ELSE {}]
     /\ ended' = IF was /\ m.tag \in {"win", "tie"} THEN ended \cup {battle}
                 ELSE IF created THEN ended \ {battle}
                 ELSE ended
     /\ lastRqid' = IF created THEN [lastRqid EXCEPT ![battle] = {}]
                    ELSE IF was /\ m.tag = "request" /\ m.payload.rqid # {}
                         THEN [lastRqid EXCEPT ![battle] = m.payload.rqid]
                    ELSE lastRqid
     /\ reported' = IF created THEN [reported EXCEPT ![battle] = {}]
                    ELSE IF was /\ m.tag = "request"
                         THEN [reported EXCEPT ![battle] = @ \cup Listed(m.payload)]
                    ELSE reported
     /\ UNCHANGED <<builderVars, probeVars, notesVars>>

HandlerInit ==
  /\ activeBattles = [k \in {} |-> Battle(k)]
  /\ out = <<>>
  /\ fault = "none"
  /\ last = [battle |-> "", tag |-> "none", tracked |-> FALSE, kind |-> "", rqid |-> {},
             who |-> <<>>, details |-> <<>>, names |-> {}]
  /\ ended = {}
  /\ lastRqid = [k \in Keys |-> {}]
  /\ reported = [k \in Keys |-> {}]
  /\ handled = 0

Init == HandlerInit /\ BuilderIdle /\ ProbeIdle /\ NotesInit

ParseEmpty ==
  /\ handled < MaxMsgs
  /\ \E battle \in Keys, m \in EmptyMsgs : Deliver(battle, m, 0)

ParseInit ==
  /\ handled < MaxMsgs
  /\ \E battle \in Keys, m \in InitMsgs : Deliver(battle, m, 0)

ParseRequest ==
  /\ handled < MaxMsgs
  /\ \E battle \in Keys, m \in RequestMsgs : Deliver(battle, m, 0)

ParsePoke ==
  /\ handled < MaxMsgs
  /\ \E battle \in Keys, m \in PokeMsgs : Deliver(battle, m, 0)

ParsePlayer ==
  /\ handled < MaxMsgs
  /\ \E battle \in Keys, m \in PlayerMsgs : Deliver(battle, m, 0)

ParseTeampreview ==
  /\ handled < MaxMsgs
  /\ \E battle \in Keys, m \in TeampreviewMsgs, nr \in 0..6 : Deliver(battle, m, nr)

ParseTurn ==
  /\ handled < MaxMsgs
  /\ \E battle \in Keys, m \in TurnMsgs, idx \in 0..3 : Deliver(battle, m, idx)

ParseSwitch ==
  /\ handled < MaxMsgs
  /\ \E battle \in Keys, m \in SwitchMsgs : Deliver(battle, m, 0)

ParseWinTie ==
  /\ handled < MaxMsgs
  /\ \E battle \in Keys, m \in WinTieMsgs : Deliver(battle, m, 0)

Next ==
  \/ ParseEmpty
  \/ ParseInit
  \/ ParseRequest
  \/ ParsePoke
  \/ ParsePlayer
  \/ ParseTeampreview
  \/ ParseTurn
  \/ ParseSwitch
  \/ ParseWinTie

Spec == Init /\ [][Next]_vars

\* A battle that has started: '|init|battle' for one key, one or two
\* '|player|...' lines and the first request, each state computed by parse
\* itself.  The run goes on from there with two messages of its budget spent.
AfterInit ==
  parse([k \in {} |-> Battle(k)], "battle-1", [tag |-> "init", kind |-> "battle"], 0).battles
AfterOnePlayer == {parse(AfterInit, "battle-1", m, 0).battles : m \in PlayerMsgs}
AfterTwoPlayers ==
  {parse(b, "battle-1", m, 0).battles : b \in AfterOnePlayer, m \in PlayerMsgs}
FirstRequest ==
  [tag |-> "request",
   payload |-> [rqid |-> {1}, shape |-> "ok", init |-> FALSE,
                pokemon |-> <<[details |-> <<"Eevee">>, active |-> TRUE,
                               moves |-> <<"tackle", "surf">>, complete |-> TRUE],
                              [details |-> <<"Pikachu", "L50">>, active |-> FALSE,
                               moves |-> <<"tackle", "surf">>, complete |-> TRUE]>>]]
AfterFirstRequest ==
  {parse(b, "battle-1", FirstRequest, 0).battles : b \in AfterOnePlayer \cup AfterTwoPlayers}

InitStarted ==
  /\ activeBattles \in AfterFirstRequest
  /\ out = <<>>
  /\ fault = "none"
  /\ last = [battle |-> "battle-1", tag |-> "request", tracked |-> TRUE, kind |-> "",
             rqid |-> {1}, who |-> <<>>, details |-> <<>>, names |-> {}]
  /\ ended = {}
  /\ lastRqid = [k \in Keys |-> IF k = "battle-1" THEN FirstRequest.payload.rqid ELSE {}]
  /\ reported = [k \in Keys |-> IF k = "battle-1" THEN Listed(FirstRequest.payload) ELSE {}]
  /\ handled = 2
  /\ BuilderIdle /\ ProbeIdle /\ NotesInit

SpecStarted == InitStarted /\ [][Next]_vars

(***************************************************************************)
(* commands.py: acceptableWeakness and the '[tier]team' command            *)
(* data/types.py, data/pokedex.py and data/tiers.py are not part of the    *)
(* sources at hand; a small type chart, Pokedex and tier list stand for    *)
(* them, indexed the way commands.py indexes them.                         *)
(***************************************************************************)
TeamSize == 6
MaxAttempts == 100
\* the thresholds of lines 182-185
WeakLimit == 3
WeakPair == 2
ResCover == 1
\* the longest iteration order acceptableWeakness is probed with
MaxProbe == 4

\* damage multipliers are kept doubled, so that x0, x1/2, x1, x2 are the
\* integers 0, 1, 2, 4; the 1 the code compares a single multiplier with is
\* Neutral, the 1 it compares a product of two with is Neutral * Neutral
Immune == 0
Half == 1
Neutral == 2
Double == 4

TypeNames == {"Fire", "Water", "Grass", "Ground", "Electric", "Dragon"}

\* one row Types[own]: what a Pokemon of type own takes from each matchup
DamageTaken(weakTo, resists, immuneTo) ==
  [matchup \in TypeNames |->
     IF matchup \in immuneTo THEN Immune
     ELSE IF matchup \in weakTo THEN Double
     ELSE IF matchup \in resists THEN Half
     ELSE Neutral]

Types ==
  [own \in TypeNames |->
     CASE own = "Fire" -> DamageTaken({"Water", "Ground"}, {"Fire", "Grass"}, {})
       [] own = "Water" -> DamageTaken({"Grass", "Electric"}, {"Fire", "Water"}, {})
       [] own = "Grass" -> DamageTaken({"Fire"}, {"Water", "Grass", "Ground", "Electric"}, {})
       [] own = "Ground" -> DamageTaken({"Water", "Grass"}, {}, {"Electric"})
       [] own = "Electric" -> DamageTaken({"Ground"}, {"Electric"}, {})
       [] own = "Dragon" ->
            DamageTaken({"Dragon"}, {"Fire", "Water", "Grass", "Electric"}, {})]

\* species descriptors, kept as their '-' separated segments
Torkoal == <<"Torkoal">>
Tangela == <<"Tangela">>
Torterra == <<"Torterra">>
Pikachu == <<"Pikachu">>
Blastoise == <<"Blastoise">>
BlastoiseMega == <<"Blastoise", "Mega">>
Swampert == <<"Swampert">>
Kyogre == <<"Kyogre">>
KyogrePrimal == <<"Kyogre", "Primal">>
CharizardMegaX == <<"Charizard", "Mega", "X">>

Catalog ==
  {Torkoal, Tangela, Torterra, Pikachu, Blastoise, BlastoiseMega, Swampert, Kyogre,
   KyogrePrimal, CharizardMegaX}

\* Pokedex[poke]['types']
Pokedex ==
  [poke \in Catalog |->
     CASE poke = Torkoal -> <<"Fire">>
       [] poke = Tangela -> <<"Grass">>
       [] poke = Torterra -> <<"Grass", "Ground">>
       [] poke = Pikachu -> <<"Electric">>
       [] poke = Blastoise -> <<"Water">>
       [] poke = BlastoiseMega -> <<"Water">>
       [] poke = Swampert -> <<"Water", "Ground">>
       [] poke = Kyogre -> <<"Water">>
       [] poke = KyogrePrimal -> <<"Water">>
       [] poke = CharizardMegaX -> <<"Fire", "Dragon">>]

\* tiers[...]: a tier of eight descriptors, one of six, one of three and an
\* empty one
tiers ==
  [t \in {"oupoke", "uupoke", "lcpoke", "cappoke"} |->
     CASE t = "oupoke" -> {Torkoal, Tangela, Torterra, Pikachu, Blastoise, BlastoiseMega,
                           KyogrePrimal, CharizardMegaX}
       [] t = "uupoke" -> {Torkoal, Tangela, Torterra, Blastoise, BlastoiseMega,
                           CharizardMegaX}
       [] t = "lcpoke" -> {Torkoal, Tangela, Blastoise}
       [] t = "cappoke" -> {}]

\* re.sub('-(?:Mega(?:-(X|Y))?|Primal)', '', poke): every '-Mega', '-Mega-X',
\* '-Mega-Y' and '-Primal' is cut out of the descriptor
RECURSIVE StripForms(_)
StripForms(segs) ==
  IF segs = <<>> THEN <<>>
  ELSE IF Head(segs) = "Mega"
       THEN IF Len(segs) >= 2 /\ segs[2] \in {"X", "Y"}
            THEN StripForms(Tail(Tail(segs)))
            ELSE StripForms(Tail(segs))
  ELSE IF Head(segs) = "Primal" THEN StripForms(Tail(segs))
  ELSE <<Head(segs)>> \o StripForms(Tail(segs))

Base(poke) == <<Head(poke)>> \o StripForms(Tail(poke))

\* '-Mega' in p
HasMega(p) == \E i \in 2..Len(p) : p[i] = "Mega"

\* Effect that looks at the first type of a dual-typed Pokemon only
Effect_first(poke, matchup) ==
  LET eff == Types[Pokedex[poke][1]][matchup]
  IN IF eff > Neutral THEN "weak" ELSE IF eff < Neutral THEN "res" ELSE "none"

\* lines 169-180: which counter one member bumps for one matchup
Effect(poke, matchup) ==
  LET types == Pokedex[poke]
  IN IF Len(types) > 1
     THEN LET eff == Types[types[1]][matchup] * Types[types[2]][matchup]
          IN IF eff > Neutral * Neutral THEN "weak"
             ELSE IF eff < Neutral * Neutral THEN "res"
             ELSE "none"
     ELSE IF Types[types[1]][matchup] > Neutral THEN "weak"
          ELSE IF Types[types[1]][matchup] < Neutral THEN "res"
          ELSE "none"

\* lines 165-180: comp after the for loop has met the members in this order
RECURSIVE Tally(_)
Tally(order) ==
  IF order = <<>> THEN [t \in TypeNames |-> [weak |-> 0, res |-> 0]]
  ELSE LET comp == Tally(SubSeq(order, 1, Len(order) - 1))
           poke == order[Len(order)]
       IN [t \in TypeNames |->
             [weak |-> comp[t].weak + (IF Effect(poke, t) = "weak" THEN 1 ELSE 0),
              res |-> comp[t].res + (IF Effect(poke, t) = "res" THEN 1 ELSE 0)]]

\* lines 164 and 181-186
acceptableWeaknessIn(order) ==
  IF order = <<>> THEN FALSE
  ELSE LET comp == Tally(order)
       IN \A t \in TypeNames :
            /\ ~(comp[t].weak >= WeakLimit)
            /\ ~(comp[t].weak >= WeakPair /\ comp[t].res <= ResCover)

\* an order in which a for loop may meet the members of a set
RECURSIVE IterationOrder(_)
IterationOrder(members) ==
  IF members = {} THEN <<>>
  ELSE LET p == CHOOSE q \in members : TRUE
       IN <<p>> \o IterationOrder(members \ {p})

acceptableWeakness(members) == acceptableWeaknessIn(IterationOrder(members))

\* what one pass of the main loop (lines 100-118) leaves behind
Pass(members, n, where) == [team |-> members, attempts |-> n, pc |-> where]

\* MainStep that keeps a member which made the team unacceptable
MainStep_keep(members, n, poke) ==
  IF Base(poke) \in members THEN Pass(members, n, "main")
  ELSE IF (\E p \in members : HasMega(p)) /\ HasMega(poke) THEN Pass(members, n, "main")
  ELSE LET kept == members \cup {poke}
       IN IF Cardinality(kept) >= TeamSize THEN Pass(kept, n, "done")
          ELSE IF n + 1 >= MaxAttempts THEN Pass(kept, n + 1, "fill")
          ELSE Pass(kept, n + 1, "main")

\* MainStep that counts a rejected draw as an attempt
MainStep_count(members, n, poke) ==
  IF \/ Base(poke) \in members
     \/ (\E p \in members : HasMega(p)) /\ HasMega(poke)
  THEN IF n + 1 >= MaxAttempts THEN Pass(members, n + 1, "fill")
       ELSE Pass(members, n + 1, "main")
  ELSE LET added == members \cup {poke}
           kept == IF ~acceptableWeakness(added) THEN added \ {poke} ELSE added
       IN IF Cardinality(kept) >= TeamSize THEN Pass(kept, n, "done")
          ELSE IF n + 1 >= MaxAttempts THEN Pass(kept, n + 1, "fill")
          ELSE Pass(kept, n + 1, "main")

\* MainStep that returns as soon as the attempts run out
MainStep_nofill(members, n, poke) ==
  IF Base(poke) \in members THEN Pass(members, n, "main")
  ELSE IF (\E p \in members : HasMega(p)) /\ HasMega(poke) THEN Pass(members, n, "main")
  ELSE LET added == members \cup {poke}
           kept == IF ~acceptableWeakness(added) THEN added \ {poke} ELSE added
       IN IF Cardinality(kept) >= TeamSize THEN Pass(kept, n, "done")
          ELSE IF n + 1 >= MaxAttempts THEN Pass(kept, n + 1, "done")
          ELSE Pass(kept, n + 1, "main")

\* lines 100-118 for one draw poke: the two 'continue' tests, the provisional
\* add and its withdrawal, the break at six members, the attempt counter and
\* the entry into the fallback fill
MainStep(members, n, poke) ==
  IF Base(poke) \in members THEN Pass(members, n, "main")
  ELSE IF (\E p \in members : HasMega(p)) /\ HasMega(poke) THEN Pass(members, n, "main")
  ELSE LET added == members \cup {poke}
           kept == IF ~acceptableWeakness(added) THEN added \ {poke} ELSE added
       IN IF Cardinality(kept) >= TeamSize THEN Pass(kept, n, "done")
          ELSE IF n + 1 >= MaxAttempts THEN Pass(kept, n + 1, "fill")
          ELSE Pass(kept, n + 1, "main")

\* lines 116-119 for one draw poke: the fill loop adds it and the command
\* returns once the team has six members
FillStep(members, n, poke) ==
  LET filled == members \cup {poke}
  IN IF Cardinality(filled) < TeamSize THEN Pass(filled, n, "fill")
     ELSE Pass(filled, n, "done")

\* lines 98-99: team = set(), attempts = 0, for the tier of the command
InitBuilder ==
  /\ HandlerInit /\ ProbeIdle /\ NotesInit
  /\ tier \in DOMAIN tiers
  /\ team = {}
  /\ attempts = 0
  /\ pc = "main"
  /\ drawn = "none"

\* the draw is one the main loop rejects on lines 102-105
RejectedDraw(members, poke) ==
  \/ Base(poke) \in members
  \/ (\E p \in members : HasMega(p)) /\ HasMega(poke)

Landed(poke, r) ==
  /\ drawn' = IF pc = "main" /\ RejectedDraw(team, poke) THEN "rejected" ELSE "taken"
  /\ team' = r.team
  /\ attempts' = r.attempts
  /\ pc' = r.pc
  /\ UNCHANGED <<tier, handlerVars, probeVars, notesVars>>

\* one pass of the main loop; a pass that ends in 'continue' leaves
\* everything as it was
DrawMain ==
  /\ pc = "main"
  /\ \E poke \in tiers[tier] : Landed(poke, MainStep(team, attempts, poke))

\* randint(0, -1) on an empty tier raises ValueError on line 101
DrawFromNothing ==
  /\ pc = "main"
  /\ tiers[tier] = {}
  /\ pc' = "error"
  /\ UNCHANGED <<tier, team, attempts, drawn, handlerVars, probeVars, notesVars>>

\* one pass of the fallback fill loop
DrawFill ==
  /\ pc = "fill"
  /\ \E poke \in tiers[tier] : Landed(poke, FillStep(team, attempts, poke))

NextBuilder == DrawMain \/ DrawFromNothing \/ DrawFill

SpecBuilder == InitBuilder /\ [][NextBuilder]_vars

\* acceptableWeakness called on a team of up to MaxProbe catalogued
\* Pokemon, for every order in which its for loop can meet them
Probes ==
  {order \in UNION {[1..n -> Catalog] : n \in 0..MaxProbe} :
     \A i, j \in 1..Len(order) : order[i] = order[j] => i = j}

InitProbe ==
  /\ HandlerInit /\ BuilderIdle /\ NotesInit
  /\ probe \in Probes
  /\ verdict = {}

Evaluate ==
  /\ verdict = {}
  /\ verdict' = {acceptableWeaknessIn(probe)}
  /\ UNCHANGED <<probe, handlerVars, builderVars, notesVars>>

NextProbe == Evaluate

SpecProbe == InitProbe /\ [][NextProbe]_vars

(***************************************************************************)
(* plugins/messages.py: MessageDatabase and the tell, read and untell      *)
(* commands                                                                *)
(***************************************************************************)
\* NOTIFICATION_GAP, in hours; the clock runs up to MaxHour
NOTIFICATION_GAP == 1
MaxHour == 4
\* 'read' is asked for up to MaxRead messages
MaxRead == 2
\* the length limit of line 120
MaxLength == 150

\* user names as typed, kept as their characters
NameBob == <<"B", "o", "b">>
Namebob == <<"b", "o", "b">>
NameAl == <<"A", "l", "!">>
UserNames == {NameBob, Namebob, NameAl}

\* re.sub(r'[^a-zA-z0-9,]', '', thing).lower() on these characters
Lower(ch) ==
  CASE ch = "A" -> "a"
    [] ch = "B" -> "b"
    [] OTHER -> ch

Kept(ch) == ch \in {"A", "B", "a", "b", "l", "o"}

RECURSIVE toId(_)
toId(thing) ==
  IF thing = <<>> THEN <<>>
  ELSE IF Kept(Head(thing)) THEN <<Lower(Head(thing))>> \o toId(Tail(thing))
  ELSE toId(Tail(thing))

UserIds == {toId(n) : n \in UserNames}
\* the user object of a command: its display name and its id
Users == {[name |-> n, id |-> toId(n)] : n \in UserNames}
\* what a user may type for another user: a display name or an id
Targets == UserNames \cup UserIds

\* message texts: an empty one, two short ones, one beyond the limit; the
\* database itself is called with one text
LongText == "a text of 151 characters"
Texts == {"", "hi", "yo", LongText}
StoredTexts == {"hi"}
TextLen(t) == IF t = "" THEN 0 ELSE IF t = LongText THEN MaxLength + 1 ELSE 2

Message(sent, msg) == [sent |-> sent, msg |-> msg]

\* dict[k] = v and dict.pop(k, None)
With(dict, k, v) == [x \in DOMAIN dict \cup {k} |-> IF x = k THEN v ELSE dict[x]]
Drop(dict, k) == [x \in DOMAIN dict \ {k} |-> dict[x]]

\* the two dicts after a call, and what the call returned or raised
Outcome(msgs, stamps, ret) == [messages |-> msgs, lastNotification |-> stamps, ret |-> ret]

\* addMessage without the lastNotification entry of line 48
addMessage_nostamp(msgs, stamps, to, sent, msg) ==
  LET boxes == IF to \notin DOMAIN msgs THEN With(msgs, to, <<>>) ELSE msgs
  IN IF sent \in DOMAIN boxes[to] THEN Outcome(boxes, stamps, "False")
     ELSE Outcome(With(boxes, to, With(boxes[to], toId(sent), Message(sent, msg))),
                  stamps, "True")

\* lines 45-52
addMessage(msgs, stamps, to, sent, msg) ==
  LET boxes == IF to \notin DOMAIN msgs THEN With(msgs, to, <<>>) ELSE msgs
      marks == IF to \notin DOMAIN stamps THEN With(stamps, to, Epoch) ELSE stamps
  IN IF sent \in DOMAIN boxes[to] THEN Outcome(boxes, marks, "False")
     ELSE Outcome(With(boxes, to, With(boxes[to], toId(sent), Message(sent, msg))),
                  marks, "True")

\* line 63: the number of messages getMessages removes
Amount(msgs, user, amnt) ==
  IF amnt > Cardinality(DOMAIN msgs[user]) THEN Cardinality(DOMAIN msgs[user]) ELSE amnt

\* lines 57-72; picked are the keys random.choice selects in removeRandomMessage
getMessages(msgs, stamps, user, picked) ==
  IF user \notin DOMAIN msgs THEN Outcome(msgs, stamps, "KeyError: messages")
  ELSE LET left == [k \in DOMAIN msgs[user] \ picked |-> msgs[user][k]]
       IN IF DOMAIN left # {} THEN Outcome(With(msgs, user, left), stamps, "reply")
          ELSE IF user \in DOMAIN stamps
          THEN Outcome(Drop(msgs, user), Drop(stamps, user), "reply")
          ELSE Outcome(Drop(msgs, user), stamps, "KeyError: lastNotification")

\* lines 93-97
hasMessage(msgs, user) == user \in DOMAIN msgs
alreadySentMessage(msgs, user, frm) == user \in DOMAIN msgs /\ frm \in DOMAIN msgs[user]

\* lines 85-91; clock is datetime.now()
shouldNotifyMessage(msgs, stamps, user, clock) ==
  IF hasMessage(msgs, user)
  THEN IF user \notin DOMAIN stamps THEN Outcome(msgs, stamps, "KeyError: lastNotification")
       ELSE IF clock - stamps[user] > NOTIFICATION_GAP
       THEN Outcome(msgs, With(stamps, user, clock), "True")
       ELSE Outcome(msgs, stamps, "False")
  ELSE Outcome(msgs, stamps, "False")

\* lines 101-105
removeMessage(msgs, stamps, to, frm) ==
  IF to \notin DOMAIN msgs THEN Outcome(msgs, stamps, "KeyError: messages")
  ELSE LET left == Drop(msgs[to], frm)
           ret == IF frm \in DOMAIN msgs[to] THEN "Message" ELSE "None"
       IN IF Cardinality(DOMAIN left) < 1 THEN Outcome(Drop(msgs, to), stamps, ret)
          ELSE Outcome(With(msgs, to, left), stamps, ret)

\* lines 108-109
removeAllMessages(msgs, stamps, to) ==
  Outcome(Drop(msgs, to), stamps, IF to \in DOMAIN msgs THEN "Messages" ELSE "None")

\* tell without the alreadySentMessage test of line 118
tell_unchecked(msgs, stamps, target, message, user) ==
  IF message = "" THEN Outcome(msgs, stamps, "You forgot a message")
  ELSE IF TextLen(message) > MaxLength THEN Outcome(msgs, stamps, "Message is too long")
  ELSE LET r == addMessage(msgs, stamps, toId(target), user.name, message)
       IN Outcome(r.messages, r.lastNotification, "I'll be sure to tell")

\* lines 112-122, for '[target], [message]'
tell(msgs, stamps, target, message, user) ==
  IF alreadySentMessage(msgs, toId(target), user.id)
  THEN Outcome(msgs, stamps, "You already have a message to this user waiting")
  ELSE IF message = "" THEN Outcome(msgs, stamps, "You forgot a message")
  ELSE IF TextLen(message) > MaxLength THEN Outcome(msgs, stamps, "Message is too long")
  ELSE LET r == addMessage(msgs, stamps, toId(target), user.name, message)
       IN Outcome(r.messages, r.lastNotification, "I'll be sure to tell")

\* lines 124-131; asked is {} for a bare 'read', {n} for 'read n'
Asked(asked) == IF asked = {} THEN 1 ELSE CHOOSE n \in asked : TRUE

read(msgs, stamps, asked, user, picked) ==
  IF ~hasMessage(msgs, user.id) THEN Outcome(msgs, stamps, "You have no messages waiting")
  ELSE getMessages(msgs, stamps, user.id, picked)

\* lines 133-138; the target is looked up as typed
untell(msgs, stamps, target, user) ==
  IF ~hasMessage(msgs, target) THEN Outcome(msgs, stamps, "This user has no waiting messages")
  ELSE LET r == removeMessage(msgs, stamps, target, user.id)
       IN Outcome(r.messages, r.lastNotification,
                  IF r.ret = "None" THEN "You have no message to this user waiting"
                  ELSE "Message removed")

\* One call: the dicts become those of its outcome; reply records the call;
\* a user is fresh from the creation of the mailbox until the mailbox is
\* gone or shouldNotifyMessage has been asked about the user
Called(op, user, to, r) ==
  /\ messages' = r.messages
  /\ lastNotification' = r.lastNotification
  /\ reply' = [op |-> op, user |-> user, to |-> to, ret |-> r.ret]
  /\ fresh' = ((fresh \cup (DOMAIN r.messages \ DOMAIN messages)) \cap DOMAIN r.messages)
                \ (IF op = "shouldNotifyMessage" THEN {to} ELSE {})
  /\ UNCHANGED <<now, handlerVars, builderVars, probeVars>>

\* the keys random.choice may select when amnt messages are removed
Picks(user, amnt) ==
  IF user \notin DOMAIN messages THEN {{}}
  ELSE {ks \in SUBSET DOMAIN messages[user] :
          Cardinality(ks) = Amount(messages, user, amnt)}

\* every call happens at an hour of the modelled range
InRange == now \in StartHour..MaxHour

\* time passes
Tick ==
  /\ now < MaxHour
  /\ now' = now + 1
  /\ UNCHANGED <<messages, lastNotification, reply, fresh, handlerVars, builderVars,
                 probeVars>>

CallAddMessage ==
  /\ InRange
  /\ \E to \in UserIds, sent \in UserNames, msg \in StoredTexts :
    Called("addMessage", toId(sent), to, addMessage(messages, lastNotification, to, sent, msg))

CallGetMessages ==
  /\ InRange
  /\ \E user \in UserIds, amnt \in 0..MaxRead : \E picked \in Picks(user, amnt) :
    Called("getMessages", user, user, getMessages(messages, lastNotification, user, picked))

CallRemoveMessage ==
  /\ InRange
  /\ \E to \in UserIds, frm \in UserIds :
    Called("removeMessage", frm, to, removeMessage(messages, lastNotification, to, frm))

CallRemoveAllMessages ==
  /\ InRange
  /\ \E to \in UserIds :
    Called("removeAllMessages", to, to, removeAllMessages(messages, lastNotification, to))

CallShouldNotifyMessage ==
  /\ InRange
  /\ \E user \in UserIds :
    Called("shouldNotifyMessage", user, user,
           shouldNotifyMessage(messages, lastNotification, user, now))

NextNotes ==
  \/ Tick
  \/ CallAddMessage
  \/ CallGetMessages
  \/ CallRemoveMessage
  \/ CallRemoveAllMessages
  \/ CallShouldNotifyMessage

InitNotes == HandlerInit /\ BuilderIdle /\ ProbeIdle /\ NotesInit

SpecNotes == InitNotes /\ [][NextNotes]_vars

\* the three commands, as users type them
CmdTell ==
  /\ InRange
  /\ \E user \in Users, target \in Targets, message \in Texts :
    Called("tell", user.id, toId(target),
           tell(messages, lastNotification, target, message, user))

CmdRead ==
  /\ InRange
  /\ \E user \in Users, asked \in {{}} \cup {{n} : n \in 0..MaxRead} :
    \E picked \in Picks(user.id, Asked(asked)) :
      Called("read", user.id, user.id,
             read(messages, lastNotification, asked, user, picked))

CmdUntell ==
  /\ InRange
  /\ \E user \in Users, target \in Targets :
    Called("untell", user.id, target, untell(messages, lastNotification, target, user))

NextCommands == CmdTell \/ CmdRead \/ CmdUntell

SpecCommands == InitNotes /\ [][NextCommands]_vars

(***************************************************************************)
(* Properties                                                              *)
(***************************************************************************)
TimerLine(battle) == respond(battle, [cmd |-> "/timer"])
IsDecision(line) == line.msg.cmd \in {"/team", "/choose move"}
OwnSide(battle) == activeBattles[battle].me
\* the move list of the active own Pokemon (empty when there is none)
ActiveMoves(battle) ==
  IF OwnSide(battle).active = NoPoke THEN <<>>
  ELSE OwnSide(battle).team[OwnSide(battle).active].moves
Elems(seq) == {seq[i] : i \in 1..Len(seq)}

\* C1: after a win or tie message has been handled for a tracked battleKey
\* (its closing lines were emitted), the key is no longer in the session table
C1_SessionDestroyed ==
  (last.tag \in {"win", "tie"} /\ last.tracked /\ fault = "none" /\ out # <<>>)
    => ~Tracked(activeBattles, last.battle)

\* C2: once win or tie has been handled for a key, every later non-init
\* message for that key emits nothing and changes no session
C2_EndedIsTerminal ==
  [][(last'.tag \in NonInitTags /\ last'.battle \in ended)
       => (out' = <<>> /\ activeBattles' = activeBattles)]_vars

\* C3: a non-init message for a key without a tracked session raises no fault,
\* emits no outbound line and leaves the session table unchanged
C3_UnknownSessionNoOp ==
  [][(last'.tag \in NonInitTags /\ ~last'.tracked)
       => (fault' = "none" /\ out' = <<>> /\ activeBattles' = activeBattles)]_vars

\* C4: an `init battle` message for an untracked key creates exactly one new
\* session under that key, emits exactly one timer line for that battle, and
\* adds, removes or changes no other key
C4_InitCreatesOne ==
  [][(last'.tag = "init" /\ last'.kind = "battle" /\ ~last'.tracked)
       => /\ ~Tracked(activeBattles, last'.battle)
          /\ DOMAIN activeBattles' = DOMAIN activeBattles \cup {last'.battle}
          /\ activeBattles'[last'.battle] = Battle(last'.battle)
          /\ \A k \in DOMAIN activeBattles : activeBattles'[k] = activeBattles[k]
          /\ out' = <<TimerLine(last'.battle)>>
          /\ fault' = "none"]_vars

\* an init battle line has just created a session next to an existing one
C4_Witness ==
  /\ last.tag = "init" /\ last.kind = "battle" /\ ~last.tracked
  /\ out = <<TimerLine(last.battle)>>
  /\ DOMAIN activeBattles = Keys
  /\ \E k \in Keys \ {last.battle} : activeBattles[k] # Battle(k)

\* C5: a re-init for an already tracked key changes no session, leaves the
\* session table as it is and emits no line
C5_ReinitNoOp ==
  [][(last'.tag = "init" /\ last'.tracked)
       => (activeBattles' = activeBattles /\ out' = <<>> /\ fault' = "none")]_vars

\* a re-init has just been ignored for a session that already holds a request
\* id and a roster
C5_Witness ==
  /\ last.tag = "init" /\ last.kind = "battle" /\ last.tracked
  /\ Tracked(activeBattles, last.battle)
  /\ activeBattles[last.battle].rqid # 0
  /\ DOMAIN OwnSide(last.battle).team # {}
  /\ out = <<>>

\* C6: every teampreview on a tracked session emits `/team <k>|<rqid>` with
\* 0 <= k < 6 and the stored request id
C6_TeamOrderInRange ==
  (last.tag = "teampreview" /\ last.tracked)
    => /\ Len(out) = 1
       /\ out[1].room = last.battle
       /\ out[1].msg.cmd = "/team"
       /\ out[1].msg.nr \in 0..5
       /\ out[1].msg.rqid = activeBattles[last.battle].rqid

\* C7: every turn on a tracked session whose active own Pokemon has 1 to 4
\* moves emits exactly one `/choose move <m>|<rqid>` with m in that move list
C7_TurnEmitsMove ==
  (last.tag = "turn" /\ last.tracked /\ Len(ActiveMoves(last.battle)) \in 1..4)
    => /\ Len(out) = 1
       /\ out[1].room = last.battle
       /\ out[1].msg.cmd = "/choose move"
       /\ out[1].msg.name \in Elems(ActiveMoves(last.battle))
       /\ out[1].msg.rqid = activeBattles[last.battle].rqid

\* C8: a turn that arrives while the active own Pokemon has no known move
\* list ends in a raised error and emits nothing, and no emitted move command
\* names a move outside the active Pokemon's move list
C8_NoMoveNoCommand ==
  /\ (last.tag = "turn" /\ last.tracked /\ ActiveMoves(last.battle) = <<>>)
       => (fault # "none" /\ out = <<>>)
  /\ \A i \in 1..Len(out) :
       out[i].msg.cmd = "/choose move"
         => /\ Tracked(activeBattles, out[i].room)
            /\ out[i].msg.name \in Elems(ActiveMoves(out[i].room))

\* a turn has just failed on an active Pokemon whose move list is empty
C8_Witness ==
  /\ last.tag = "turn" /\ last.tracked
  /\ OwnSide(last.battle).active # NoPoke
  /\ ActiveMoves(last.battle) = <<>>
  /\ fault = "IndexError"
  /\ out = <<>>

\* C9: every emitted /team or /choose move carries the request id of the
\* latest request of that battle that had one, and a request without a
\* request id leaves the stored id unchanged
C9_RqidIsLatest ==
  [][/\ \A i \in 1..Len(out') :
          (IsDecision(out'[i]) /\ lastRqid'[out'[i].room] # {})
            => out'[i].msg.rqid \in lastRqid'[out'[i].room]
     /\ (last'.tag = "request" /\ last'.tracked /\ last'.rqid = {})
          => activeBattles'[last'.battle].rqid = activeBattles[last'.battle].rqid]_vars

\* C10: a request listing only descriptors already listed leaves the own
\* roster size unchanged, and the own roster holds exactly one entity per
\* descriptor reported so far
C10_UpdateNotDuplicate ==
  [][/\ \A k \in DOMAIN activeBattles' :
          LET roster == activeBattles'[k].me.team
          IN /\ \A d \in reported'[k] : \E s \in DOMAIN roster : roster[s].details = d
             /\ \A s, t \in DOMAIN roster : roster[s].details = roster[t].details => s = t
     /\ (last'.tag = "request" /\ last'.tracked /\ fault' = "none"
           /\ reported'[last'.battle] = reported[last'.battle])
          => Cardinality(DOMAIN activeBattles'[last'.battle].me.team)
               = Cardinality(DOMAIN activeBattles[last'.battle].me.team)]_vars

\* the species of a side's roster whose entity is marked active
MarkedActive(side) == {s \in DOMAIN side.team : side.team[s].active}
Sides(btl) == {btl.me, btl.other}

\* C11: a request whose payload misses an expected field (side, pokemon, or
\* a field of any entry of the pokemon list) leaves the own roster exactly as
\* it was before the message
C11_MalformedSkipped ==
  [][(last'.tag = "request" /\ last'.tracked /\ fault' = "KeyError")
       => activeBattles'[last'.battle].me = activeBattles[last'.battle].me]_vars

\* C18: on both sides of every tracked battle at most one Pokemon is marked
\* active, and the active reference, once set, refers to a member of that
\* side's roster and never goes back to nothing
C18_OneActiveInRoster ==
  [][/\ \A k \in DOMAIN activeBattles' : \A side \in Sides(activeBattles'[k]) :
          /\ Cardinality(MarkedActive(side)) <= 1
          /\ side.active # NoPoke => side.active \in DOMAIN side.team
     /\ \A k \in DOMAIN activeBattles \cap DOMAIN activeBattles' :
          /\ activeBattles[k].me.active # NoPoke => activeBattles'[k].me.active # NoPoke
          /\ activeBattles[k].other.active # NoPoke
               => activeBattles'[k].other.active # NoPoke]_vars

\* C19: handling a message for one battleKey leaves the session of every
\* other key as it was (tracked or not, rosters, active references, request
\* id) and every line emitted while handling it is addressed to that key
C19_BattlesIndependent ==
  [][\A k \in Keys \ {last'.battle} :
       /\ Tracked(activeBattles', k) = Tracked(activeBattles, k)
       /\ Tracked(activeBattles, k) => activeBattles'[k] = activeBattles[k]
       /\ \A i \in 1..Len(out') : out'[i].room = last'.battle]_vars

\* a teampreview of one battle has just emitted its line while the other
\* battle holds a different session of its own
C19_Witness ==
  /\ DOMAIN activeBattles = Keys
  /\ last.tag = "teampreview" /\ last.tracked
  /\ Len(out) = 1 /\ out[1].room = last.battle

\* msg[3] of a switch line names the Pokemon switched in; a session changes
\* in the active reference of one side only
SwitchedSpecies(details) == getSpecies(details)
OnlyActiveOf(before, after, which) ==
  IF which = "me"
  THEN after = [before EXCEPT !.me.active = after.me.active]
  ELSE after = [before EXCEPT !.other.active = after.other.active]

Marked(members) == {p \in members : Base(p) # p}

\* every draw of the running loop leaves team, attempts and position as
\* they are, so the loop can never leave this state
Stuck ==
  /\ pc \in {"main", "fill"}
  /\ tiers[tier] # {}
  /\ \A poke \in tiers[tier] :
       (IF pc = "main" THEN MainStep(team, attempts, poke)
        ELSE FillStep(team, attempts, poke)) = Pass(team, attempts, pc)

\* C12: a returned team has no two members with the same base species and
\* at most one member with a mega or primal marker
C12_OneFormPerSpecies ==
  pc = "done"
    => /\ \A p, q \in team : Base(p) = Base(q) => p = q
       /\ Cardinality(Marked(team)) <= 1

\* C13: with a tier of at least six descriptors the builder never reaches a
\* state in which every draw is rejected without advancing anything
C13_NeverHangs ==
  Cardinality(tiers[tier]) >= TeamSize => ~Stuck

\* C14: with a tier of fewer than six descriptors the builder neither
\* returns a team nor reaches a state in which it draws forever
C14_SmallTierFails ==
  Cardinality(tiers[tier]) < TeamSize => (pc # "done" /\ ~Stuck)

\* C15: after every pass of the main loop the team is empty or acceptable,
\* and a team returned before the attempts ran out has six members and is
\* acceptable
C15_NormalPathAcceptable ==
  /\ (pc \in {"main", "done"} /\ attempts < MaxAttempts)
       => (team = {} \/ acceptableWeakness(team))
  /\ (pc = "done" /\ attempts < MaxAttempts)
       => (Cardinality(team) = TeamSize /\ acceptableWeakness(team))

\* the builder has returned on its normal path after at least one draw was
\* withdrawn for making the team unacceptable
C15_Witness ==
  /\ pc = "done"
  /\ attempts < MaxAttempts
  /\ attempts >= TeamSize
  /\ Cardinality(team) = TeamSize
  /\ acceptableWeakness(team)

\* C16: a returned team has exactly six members, on either path
C16_ExactlySix ==
  pc = "done" => Cardinality(team) = TeamSize

\* the builder has returned through the fallback fill with six members that
\* are not an acceptable team
C16_Witness ==
  /\ pc = "done"
  /\ attempts = MaxAttempts
  /\ Cardinality(team) = TeamSize
  /\ ~acceptableWeakness(team)

\* the reference predicate of the type-coverage rule, on the set of members:
\* a member's effectiveness is the product of its per-type multipliers (here
\* on the doubled scale, a single multiplier padded with one neutral factor)
Effectiveness(poke, m) ==
  IF Len(Pokedex[poke]) = 1 THEN Types[Pokedex[poke][1]][m] * Neutral
  ELSE Types[Pokedex[poke][1]][m] * Types[Pokedex[poke][2]][m]

WeakCount(members, m) ==
  Cardinality({p \in members : Effectiveness(p, m) > Neutral * Neutral})

ResistCount(members, m) ==
  Cardinality({p \in members : Effectiveness(p, m) < Neutral * Neutral})

Acceptable(members) ==
  /\ members # {}
  /\ \A m \in TypeNames :
       /\ WeakCount(members, m) < WeakLimit
       /\ ~(WeakCount(members, m) >= WeakPair /\ ResistCount(members, m) <= ResCover)

Members(order) == {order[i] : i \in 1..Len(order)}

\* C17: whatever the order in which the members are met, acceptableWeakness
\* returns what the reference predicate says of the set of members; it
\* returns false for the empty team
C17_MatchesReference ==
  verdict # {} => verdict = {Acceptable(Members(probe))}

\* acceptableWeakness has accepted a team with a dual-typed member although
\* two of its members are weak to the same attacking type
C17_Witness ==
  /\ verdict = {TRUE}
  /\ \E i \in 1..Len(probe) : Len(Pokedex[probe[i]]) > 1
  /\ \E m \in TypeNames : WeakCount(Members(probe), m) = WeakPair

WonRemark == "O-oh, I won? Sorry :("
LostRemark == "It's okay, you're better than me :>"

\* C21: a win or tie handled on a tracked session emits exactly two lines
\* for that battle: the closing remark (the 'I won' one iff the winner is the
\* bot), then /leave; a tie line may carry no winner
C21_ClosingLines ==
  (last.tag \in {"win", "tie"} /\ last.tracked)
    => out = <<respond(last.battle,
                       [cmd |-> IF last.names = {botName} THEN WonRemark ELSE LostRemark]),
               respond(last.battle, [cmd |-> "/leave"])>>

\* C22: for a tracked battle a non-init message takes its normal effect
\* whatever its fields contain: a request carrying a request id stores it, a
\* player line binds the name it carries, a win or tie line with a winner
\* emits its two closing lines
C22_GuardDropsOnlyInit ==
  last.tracked
    => /\ (last.tag = "request" /\ last.rqid # {})
            => activeBattles[last.battle].rqid \in last.rqid
       /\ last.tag = "player"
            => \E side \in Sides(activeBattles[last.battle]) : {side.name} = last.names
       /\ (last.tag \in {"win", "tie"} /\ last.names # {}) => Len(out) = 2

\* C23: the attempt counter never exceeds 100; it grows by one, and only in
\* a main-loop pass whose draw was not rejected and which leaves fewer than
\* six members; the fallback fill is entered exactly when it reaches 100
C23_AttemptsBounded ==
  [][/\ attempts' <= MaxAttempts
     /\ attempts' # attempts
          => /\ attempts' = attempts + 1
             /\ pc = "main"
             /\ drawn' = "taken"
             /\ Cardinality(team') < TeamSize
     /\ drawn' = "rejected" => (attempts' = attempts /\ pc' = "main" /\ team' = team)
     /\ (pc # "fill" /\ pc' = "fill") <=> (attempts < MaxAttempts /\ attempts' = MaxAttempts)
     /\ pc' = "fill" => attempts' = MaxAttempts]_vars

\* a draw has just been rejected, uncounted, one pass before the counter
\* would reach 100
C23_Witness ==
  /\ pc = "main"
  /\ drawn = "rejected"
  /\ attempts = MaxAttempts - 1
  /\ Cardinality(team) < TeamSize

MissingStamp == "KeyError: lastNotification"
Waiting == "You already have a message to this user waiting"

\* C24: every user with a mailbox in messages has an entry in
\* lastNotification, and no call fails on a missing lastNotification key
C24_MailboxHasStamp ==
  /\ DOMAIN messages \subseteq DOMAIN lastNotification
  /\ reply.ret # MissingStamp

\* getMessages has just emptied a mailbox and cleared both entries of its
\* user while another user still has a mailbox and its entry
C24_Witness ==
  /\ reply.op = "getMessages" /\ reply.ret = "reply"
  /\ reply.to \notin DOMAIN messages
  /\ reply.to \notin DOMAIN lastNotification
  /\ DOMAIN messages # {}
  /\ fresh = {}

\* C25: the first shouldNotifyMessage call for a user after a message was
\* added to the user's empty mailbox returns True, whatever came before
C25_FirstNotifyTrue ==
  [][(reply'.op = "shouldNotifyMessage" /\ reply'.to \in fresh) => reply'.ret = "True"]_vars

\* C26: a stored message sits under its own sender's id, so a recipient
\* holds at most one per sender; a tell from a sender who has one waiting for
\* that recipient is rejected and changes nothing; a stored message goes
\* away only by the recipient's read or its sender's untell
C26_OnePerSender ==
  [][/\ \A to \in DOMAIN messages' : \A k \in DOMAIN messages'[to] :
          toId(messages'[to][k].sent) = k
     /\ (reply'.op = "tell" /\ alreadySentMessage(messages, reply'.to, reply'.user))
          => (reply'.ret = Waiting /\ messages' = messages)
     /\ \A to \in DOMAIN messages : \A k \in DOMAIN messages[to] :
          (to \notin DOMAIN messages' \/ k \notin DOMAIN messages'[to]
             \/ messages'[to][k] # messages[to][k])
            => \/ reply'.op = "read" /\ reply'.user = to
               \/ reply'.op = "untell" /\ reply'.user = k]_vars

\* a tell has just been rejected because the sender's earlier message,
\* stored under a display name that differs from the sender's id, is waiting
C26_Witness ==
  /\ reply.op = "tell" /\ reply.ret = Waiting
  /\ alreadySentMessage(messages, reply.to, reply.user)
  /\ messages[reply.to][reply.user].sent # reply.user

====
